---- MODULE Spec2Model ----
(***************************************************************************)
(* Model of the sampling core of src/gnc/g2g.py: level_sets,               *)
(* CompleteKPartiteGraph and AttributedGraph.                              *)
(*                                                                         *)
(* Python lists and numpy arrays are 0-indexed; a Python list is modelled  *)
(* as a TLA+ sequence, so Python's l[d] is l[d + 1] here and l[-1] is      *)
(* l[Len(l)].  A numpy array indexed by a dense node index is modelled as  *)
(* a function on 0..total-1.                                               *)
(***************************************************************************)
EXTENDS Integers, Sequences, FiniteSets, TLC

VARIABLES
    A,              \* adjacency matrix: [shape |-> n, edges |-> set of {i, j}]
    K,              \* maximum path length, None when absent
    pc,             \* position of the caller
    level_sets,     \* level_sets(A, K) / AttributedGraph.level_sets
    level_counts,   \* AttributedGraph.level_counts
    loss_weights,   \* AttributedGraph.loss_weights
    neighborhoods,  \* AttributedGraph.neighborhoods
    partitions,     \* argument of CompleteKPartiteGraph(partitions)
    graph,          \* the constructed CompleteKPartiteGraph, None before
    result          \* outcome of the last call

vars == <<A, K, pc, level_sets, level_counts, loss_weights, neighborhoods,
          partitions, graph, result>>

----------------------------------------------------------------------------
(* Bounds of the model *)

MaxN == 4
MaxK == 2
MaxAgN == 3
MaxTotal == 4
MaxParts == 3
MaxSize == 2

----------------------------------------------------------------------------
(* Values *)

\* K is None: the hop radius is absent. Every K that is given is >= 0.
None == -1

\* numpy's inf, the distance scipy reports between two components
Infinity == 1000000

\* an optional value: Python's None is the empty tuple
Absent == <<>>

Some(x) == <<x>>

Range(s) == {s[x] : x \in DOMAIN s}

RECURSIVE SumSeq(_)
SumSeq(s) == IF s = <<>> THEN 0 ELSE Head(s) + SumSeq(Tail(s))

RECURSIVE Flatten(_)
Flatten(ss) == IF ss = <<>> THEN <<>> ELSE Head(ss) \o Flatten(Tail(ss))

Max(S) == CHOOSE x \in S : \A y \in S : y <= x

----------------------------------------------------------------------------
(* The adjacency matrix *)

Nodes(G) == 0..(G.shape - 1)

\* directed=False: an entry in either triangle is an edge
Adjacent(G, i, j) == {i, j} \in G.edges

PairsOf(n) == {e \in SUBSET (0..(n - 1)) : Cardinality(e) = 2}

Graphs(n) == [shape : {n}, edges : SUBSET PairsOf(n)]

\* the path 0-1-2-3-4
PathGraph == [shape |-> 5, edges |-> {{0, 1}, {1, 2}, {2, 3}, {3, 4}}]

\* two components of sizes 2 and 3: a path, a triangle, interleaved node ids
TwoComponentGraphs ==
    {[shape |-> 5, edges |-> {{0, 1}, {2, 3}, {3, 4}}],
     [shape |-> 5, edges |-> {{0, 1}, {2, 3}, {3, 4}, {2, 4}}],
     [shape |-> 5, edges |-> {{1, 3}, {0, 2}, {2, 4}}],
     [shape |-> 5, edges |-> {{2, 4}, {0, 1}, {1, 3}, {0, 3}}]}

ExampleGraphs == {PathGraph} \cup TwoComponentGraphs

----------------------------------------------------------------------------
(* level_sets(A, K) *)

\* scipy.sparse.csgraph.shortest_path(A, method="D", unweighted=True,
\* directed=False): hop counts from one source, inf where unreachable
RECURSIVE Bfs(_, _, _, _)
Bfs(G, dist, frontier, d) ==
    IF frontier = {} THEN dist
    ELSE LET next == {v \in Nodes(G) : /\ dist[v] = Infinity
                                       /\ \E u \in frontier : Adjacent(G, u, v)}
         IN Bfs(G, [v \in Nodes(G) |-> IF v \in next THEN d + 1 ELSE dist[v]],
                next, d + 1)

shortest_path(G) ==
    [i \in Nodes(G) |->
        Bfs(G, [v \in Nodes(G) |-> IF v = i THEN 0 ELSE Infinity], {i}, 0)]

\* D[np.logical_not(np.isfinite(D))] = -1.0; D = D.astype(np.int)
CastFinite(G, D) ==
    [i \in Nodes(G) |-> [j \in Nodes(G) |->
        IF D[i][j] = Infinity THEN -1 ELSE D[i][j]]]

\* FoldFar with D >= K in place of D > K
FoldFarAtK(G, D, k) ==
    IF k /= None
    THEN [i \in Nodes(G) |-> [j \in Nodes(G) |->
            IF D[i][j] >= k THEN -1 ELSE D[i][j]]]
    ELSE D

\* if K is not None: D[D > K] = -1
FoldFar(G, D, k) ==
    IF k /= None
    THEN [i \in Nodes(G) |-> [j \in Nodes(G) |->
            IF D[i][j] > k THEN -1 ELSE D[i][j]]]
    ELSE D

\* set_counts = D.max(axis=1)
set_counts(G, D) == [i \in Nodes(G) |-> Max({D[i][j] : j \in Nodes(G)})]

\* [[] for _ in range(m)]
RECURSIVE EmptyLists(_)
EmptyLists(m) == IF m <= 0 THEN <<>> ELSE Append(EmptyLists(m - 1), <<>>)

\* sets = {i: [[] for _ in range(1 + set_counts[i] + 1)] ...}
EmptySets(G, D) ==
    [i \in Nodes(G) |-> EmptyLists(1 + set_counts(G, D)[i] + 1)]

\* sets[i][idx].append(v), idx a 1-based position
AppendAt(sets, i, idx, v) ==
    [sets EXCEPT ![i] = [@ EXCEPT ![idx] = Append(@, v)]]

\* PlacePair without the append to sets[j]
PlacePairOneSided(sets, i, j, d) ==
    IF d < 0
    THEN AppendAt(sets, i, Len(sets[i]), j)
    ELSE AppendAt(sets, i, d + 1, j)

\* PlacePair that files i in the outermost level set of j whatever d is
PlacePairOutermost(sets, i, j, d) ==
    LET s1 == AppendAt(sets, i, IF d < 0 THEN Len(sets[i]) ELSE d + 1, j)
    IN AppendAt(s1, j, Len(s1[j]), i)

\* the body of the inner loop: file the pair (i, j) under its distance d
PlacePair(sets, i, j, d) ==
    IF d < 0
    THEN LET s1 == AppendAt(sets, i, Len(sets[i]), j)
         IN AppendAt(s1, j, Len(s1[j]), i)
    ELSE LET s1 == AppendAt(sets, i, d + 1, j)
         IN AppendAt(s1, j, d + 1, i)

\* for j in range(i): ...
RECURSIVE InnerLoop(_, _, _, _)
InnerLoop(sets, D, i, j) ==
    IF j >= i THEN sets
    ELSE InnerLoop(PlacePair(sets, i, j, D[i][j]), D, i, j + 1)

\* for i in range(D.shape[0]): sets[i][0].append(i); ...
RECURSIVE OuterLoop(_, _, _, _)
OuterLoop(sets, D, i, n) ==
    IF i >= n THEN sets
    ELSE OuterLoop(InnerLoop(AppendAt(sets, i, 1, i), D, i, 0), D, i + 1, n)

LevelSets(G, k) ==
    IF G.shape = 0 THEN <<>>
    ELSE LET D == FoldFar(G, CastFinite(G, shortest_path(G)), k)
         IN OuterLoop(EmptySets(G, D), D, 0, G.shape)

----------------------------------------------------------------------------
(* CompleteKPartiteGraph *)

\* one value per node, in the order of self.nodes:
\* [v for partition, v in zip(partitions, vals) for _ in partition]
PerNode(parts, vals) ==
    LET flat == Flatten([x \in 1..Len(parts) |->
                            [y \in 1..Len(parts[x]) |-> vals[x]]])
    IN [idx \in 0..(Len(flat) - 1) |-> flat[idx + 1]]

\* self.counts.cumsum()
Cumsum(counts, x) == SumSeq(SubSeq(counts, 1, x))

\* assert len(self.partitions) >= 2; assert np.all(self.counts > 0)
PartitionsValid(parts) ==
    /\ Len(parts) >= 2
    /\ \A x \in 1..Len(parts) : Len(parts[x]) > 0

\* the start of each node's partition in self.nodes: end - n
StartOf(counts, x) == Cumsum(counts, x) - counts[x]

\* self.out_degrees = np.full(self.total, self.total) - self.n_i
OutDegree(total, n) == total - n

\* Proportion with every node equally likely
ProportionUniform(out_degrees, idx) == <<1, Cardinality(DOMAIN out_degrees)>>

\* self.p = self.out_degrees / self.out_degrees.sum(), as <<numerator, denominator>>
Proportion(out_degrees, idx) ==
    <<out_degrees[idx], SumSeq([x \in 1..Cardinality(DOMAIN out_degrees) |->
                                    out_degrees[x - 1]])>>

CompleteKPartiteGraph(parts) ==
    LET counts == [x \in 1..Len(parts) |-> Len(parts[x])]
        total == SumSeq(counts)
        flat == Flatten(parts)
        n_i == PerNode(parts, counts)
        out_degrees == [idx \in 0..(total - 1) |-> OutDegree(total, n_i[idx])]
    IN [partitions |-> parts,
        counts |-> counts,
        total |-> total,
        nodes |-> [idx \in 0..(total - 1) |-> flat[idx + 1]],
        n_i |-> n_i,
        start_i |-> PerNode(parts, [x \in 1..Len(parts) |-> StartOf(counts, x)]),
        out_degrees |-> out_degrees,
        p |-> [idx \in 0..(total - 1) |-> Proportion(out_degrees, idx)]]

\* SkipOwn with k > start in place of k >= start
SkipOwnStrict(g, j, k) == IF k > g.start_i[j] THEN k + g.n_i[j] ELSE k

\* k += (k >= self.start_i[j]).astype(np.int) * self.n_i[j]
SkipOwn(g, j, k) == IF k >= g.start_i[j] THEN k + g.n_i[j] ELSE k

\* WrongOrder with the comparison reversed
WrongOrderReversed(j, k) == k > j

\* wrong_order = k < j
WrongOrder(j, k) == k < j

\* one element of the vectorised body of sample_edges: the origin index j and
\* the rank k that were drawn become the pair of node ids that is returned
SampleOne(g, j, k) ==
    LET k1 == SkipOwn(g, j, k)
        j2 == IF WrongOrder(j, k1) THEN k1 ELSE j
        k2 == IF WrongOrder(j, k1) THEN j ELSE k1
    IN <<g.nodes[j2], g.nodes[k2]>>

\* np.random.choice(self.total, size=size, p=self.p, replace=True) and
\* np.random.randint(self.out_degrees[j]): every pair of vectors they can draw
Draws(g, size) ==
    {dr \in [origin : [1..size -> {idx \in 0..(g.total - 1) : g.p[idx][1] > 0}],
             rank : [1..size -> 0..(g.total - 1)]] :
        \A t \in 1..size : dr.rank[t] < g.out_degrees[dr.origin[t]]}

\* sample_edges(size) on the drawn vectors: (j, k)
sample_edges(g, dr) ==
    [j |-> [t \in DOMAIN dr.origin |-> SampleOne(g, dr.origin[t], dr.rank[t])[1]],
     k |-> [t \in DOMAIN dr.origin |-> SampleOne(g, dr.origin[t], dr.rank[t])[2]]]

----------------------------------------------------------------------------
(* AttributedGraph *)

\* np.array(list(map(len, level_sets)))
LevelCounts(ls) == [node \in DOMAIN ls |-> [x \in 1..Len(ls[node]) |-> Len(ls[node][x])]]

\* LossWeight over N[i] in place of N[i][1:]
LossWeightWithSelf(N) ==
    (SumSeq(N) * SumSeq(N) - SumSeq([x \in 1..Len(N) |-> N[x] * N[x]])) \div 2

\* 0.5 * (N[i][1:].sum() ** 2 - (N[i][1:] ** 2).sum())
LossWeight(N) ==
    LET rest == Tail(N)
    IN (SumSeq(rest) * SumSeq(rest)
        - SumSeq([x \in 1..Len(rest) |-> rest[x] * rest[x]])) \div 2

\* NeedsSampler with len(ls) > 3
NeedsSamplerDeeper(ls) == Len(ls) > 3

\* if len(ls) >= 3: a sampler is built for the node
NeedsSampler(ls) == Len(ls) >= 3

\* if len(level_sets) < 3: raise Exception
TooShallow(ls) == Len(ls) < 3

\* [i for i in self.nodes() if len(N[i]) >= 3]
RECURSIVE EligibleFrom(_, _, _)
EligibleFrom(N, i, n) ==
    IF i >= n THEN <<>>
    ELSE (IF Len(N[i]) >= 3 THEN <<i>> ELSE <<>>) \o EligibleFrom(N, i + 1, n)

eligible_nodes(G, N) == EligibleFrom(N, 0, G.shape)

----------------------------------------------------------------------------
(* The outcome of a call *)

NoResult ==
    [op |-> "", node |-> -1, size |-> 0, error |-> "",
     origin |-> <<>>, rank |-> <<>>, j |-> <<>>, k |-> <<>>, eligible |-> <<>>]

Inputs == {None} \cup (0..MaxK)

----------------------------------------------------------------------------
(* Specification of level_sets as a function of (A, K) *)

InitLevelSets ==
    /\ A \in UNION {Graphs(n) : n \in 0..MaxN} \cup ExampleGraphs
    /\ K \in Inputs
    /\ pc = "init"
    /\ level_sets = <<>>
    /\ level_counts = <<>>
    /\ loss_weights = <<>>
    /\ neighborhoods = <<>>
    /\ partitions = <<>>
    /\ graph = Absent
    /\ result = NoResult

CallLevelSets ==
    /\ pc = "init"
    /\ level_sets' = LevelSets(A, K)
    /\ pc' = "returned"
    /\ result' = [NoResult EXCEPT !.op = "level_sets"]
    /\ UNCHANGED <<A, K, level_counts, loss_weights, neighborhoods, partitions, graph>>

NextLevelSets == CallLevelSets

SpecLevelSets == InitLevelSets /\ [][NextLevelSets]_vars

----------------------------------------------------------------------------
(* Specification of CompleteKPartiteGraph *)

\* the node ids of a sampler with t nodes: 10..(10 + t - 1), ascending or
\* descending
Labelings(t) ==
    {[x \in 1..t |-> 10 + x - 1], [x \in 1..t |-> 10 + t - x]}

\* flat cut into consecutive partitions of the given sizes
Cut(flat, sizes) ==
    [x \in 1..Len(sizes) |->
        SubSeq(flat, Cumsum(sizes, x) - sizes[x] + 1, Cumsum(sizes, x))]

PartitionInputs ==
    UNION {{Cut(flat, sizes) : flat \in Labelings(SumSeq(sizes))} :
            sizes \in {s \in UNION {[1..m -> 0..MaxTotal] : m \in 0..MaxParts} :
                         SumSeq(s) <= MaxTotal}}

InitKPartite ==
    /\ partitions \in PartitionInputs
    /\ pc = "init"
    /\ graph = Absent
    /\ A = [shape |-> 0, edges |-> {}]
    /\ K = None
    /\ level_sets = <<>>
    /\ level_counts = <<>>
    /\ loss_weights = <<>>
    /\ neighborhoods = <<>>
    /\ result = NoResult

\* CompleteKPartiteGraph(partitions) returns
KPartiteInit ==
    /\ pc = "init"
    /\ PartitionsValid(partitions)
    /\ graph' = Some(CompleteKPartiteGraph(partitions))
    /\ pc' = "ready"
    /\ result' = [NoResult EXCEPT !.op = "__init__"]
    /\ UNCHANGED <<A, K, level_sets, level_counts, loss_weights, neighborhoods, partitions>>

\* CompleteKPartiteGraph(partitions) fails an assertion
KPartiteInitFails ==
    /\ pc = "init"
    /\ ~PartitionsValid(partitions)
    /\ pc' = "failed"
    /\ result' = [NoResult EXCEPT !.op = "__init__", !.error = "AssertionError"]
    /\ UNCHANGED <<A, K, level_sets, level_counts, loss_weights, neighborhoods,
                   partitions, graph>>

SampleEdges ==
    /\ pc = "ready"
    /\ pc' = "called"
    /\ \E size \in 1..MaxSize : \E dr \in Draws(graph[1], size) :
         LET e == sample_edges(graph[1], dr)
         IN result' = [NoResult EXCEPT !.op = "sample_edges", !.size = size,
                                       !.origin = dr.origin, !.rank = dr.rank,
                                       !.j = e.j, !.k = e.k]
    /\ UNCHANGED <<A, K, level_sets, level_counts, loss_weights, neighborhoods,
                   partitions, graph>>

\* the caller has copied what the call returned, or caught what it raised,
\* and goes on to its next call
NextCall ==
    /\ pc = "called"
    /\ pc' = "ready"
    /\ result' = NoResult
    /\ UNCHANGED <<A, K, level_sets, level_counts, loss_weights, neighborhoods,
                   partitions, graph>>

NextKPartite == KPartiteInit \/ KPartiteInitFails \/ SampleEdges \/ NextCall

SpecKPartite == InitKPartite /\ [][NextKPartite]_vars

----------------------------------------------------------------------------
(* Specification of AttributedGraph *)

GraphInputs == UNION {Graphs(n) : n \in 0..MaxAgN} \cup ExampleGraphs

Init ==
    /\ A \in GraphInputs
    /\ K \in Inputs
    /\ pc = "init"
    /\ level_sets = <<>>
    /\ level_counts = <<>>
    /\ loss_weights = <<>>
    /\ neighborhoods = <<>>
    /\ partitions = <<>>
    /\ graph = Absent
    /\ result = NoResult

\* the samplers AttributedGraph.__init__ has to build
SamplersValid(G, ls) ==
    \A i \in Nodes(G) : NeedsSampler(ls[i]) => PartitionsValid(Tail(ls[i]))

\* AttributedGraph(A, X, z, K) returns
AttributedGraphInit ==
    /\ pc = "init"
    /\ LET ls == LevelSets(A, K)
           N == LevelCounts(ls)
       IN /\ SamplersValid(A, ls)
          /\ level_sets' = ls
          /\ level_counts' = N
          /\ loss_weights' = [i \in Nodes(A) |-> LossWeight(N[i])]
          /\ neighborhoods' =
                [i \in Nodes(A) |->
                    IF NeedsSampler(ls[i])
                    THEN Some(CompleteKPartiteGraph(Tail(ls[i])))
                    ELSE Absent]
    /\ pc' = "ready"
    /\ result' = [NoResult EXCEPT !.op = "__init__"]
    /\ UNCHANGED <<A, K, partitions, graph>>

\* AttributedGraph(A, X, z, K) fails in the assertions of a sampler it builds
AttributedGraphInitFails ==
    /\ pc = "init"
    /\ ~SamplersValid(A, LevelSets(A, K))
    /\ pc' = "failed"
    /\ result' = [NoResult EXCEPT !.op = "__init__", !.error = "AssertionError"]
    /\ UNCHANGED <<A, K, level_sets, level_counts, loss_weights, neighborhoods,
                   partitions, graph>>

EligibleNodes ==
    /\ pc = "ready"
    /\ pc' = "called"
    /\ result' = [NoResult EXCEPT !.op = "eligible_nodes",
                                  !.eligible = eligible_nodes(A, level_counts)]
    /\ UNCHANGED <<A, K, level_sets, level_counts, loss_weights, neighborhoods,
                   partitions, graph>>

\* sample_two_neighbors(node, size) raises
SampleTwoNeighborsFails ==
    /\ pc = "ready"
    /\ pc' = "called"
    /\ \E node \in Nodes(A) : \E size \in 1..MaxSize :
         /\ TooShallow(level_sets[node]) \/ neighborhoods[node] = Absent
         /\ result' = [NoResult EXCEPT
                          !.op = "sample_two_neighbors", !.node = node, !.size = size,
                          !.error = IF TooShallow(level_sets[node])
                                    THEN "Exception" ELSE "AttributeError"]
    /\ UNCHANGED <<A, K, level_sets, level_counts, loss_weights, neighborhoods,
                   partitions, graph>>

\* sample_two_neighbors(node, size) returns
SampleTwoNeighbors ==
    /\ pc = "ready"
    /\ pc' = "called"
    /\ \E node \in Nodes(A) : \E size \in 1..MaxSize :
         /\ ~TooShallow(level_sets[node])
         /\ neighborhoods[node] /= Absent
         /\ \E dr \in Draws(neighborhoods[node][1], size) :
              LET e == sample_edges(neighborhoods[node][1], dr)
              IN result' = [NoResult EXCEPT
                               !.op = "sample_two_neighbors", !.node = node,
                               !.size = size, !.origin = dr.origin, !.rank = dr.rank,
                               !.j = e.j, !.k = e.k]
    /\ UNCHANGED <<A, K, level_sets, level_counts, loss_weights, neighborhoods,
                   partitions, graph>>

Next ==
    \/ AttributedGraphInit
    \/ AttributedGraphInitFails
    \/ EligibleNodes
    \/ SampleTwoNeighborsFails
    \/ SampleTwoNeighbors
    \/ NextCall

Spec == Init /\ [][Next]_vars

----------------------------------------------------------------------------
(* Hop distance, stated without the distance matrix *)

\* the nodes within d hops of i
RECURSIVE HopBall(_, _, _)
HopBall(G, i, d) ==
    IF d = 0 THEN {i}
    ELSE LET B == HopBall(G, i, d - 1)
         IN B \cup {v \in Nodes(G) : \E u \in B : Adjacent(G, u, v)}

Reachable(G, i, j) == j \in HopBall(G, i, G.shape)

\* the least d with j within d hops of i, for j reachable from i
HopDistance(G, i, j) ==
    CHOOSE d \in 0..G.shape : /\ j \in HopBall(G, i, d)
                              /\ (d = 0 \/ j \notin HopBall(G, i, d - 1))

\* j is reachable from i and, when K is given, within K hops
InRange(G, k, i, j) ==
    /\ Reachable(G, i, j)
    /\ (k = None \/ HopDistance(G, i, j) <= k)

\* the largest hop distance from i that is finite and within K
MaxFinite(G, k, i) == Max({HopDistance(G, i, j) : j \in {v \in Nodes(G) : InRange(G, k, i, v)}})

Component(G, i) == {j \in Nodes(G) : Reachable(G, i, j)}

\* the members of shell d (0-based) of node i
Shell(ls, i, d) == Range(ls[i][d + 1])

Overflow(ls, i) == Range(ls[i][Len(ls[i])])

----------------------------------------------------------------------------
(* Properties of level_sets, under SpecLevelSets *)

\* C1: for every node i, shell 0 of level_sets(A, K) is {i}, shell d for
\* 1 <= d <= (largest in-range hop distance from i) is the set of nodes at hop
\* distance d, and the last shell is the set of nodes unreachable from i or more
\* than K hops away; with two components of sizes 2 and 3 and K absent the last
\* shell of every node is the other component.
C1_ShellsAreHopDistances ==
    pc = "returned" =>
        /\ DOMAIN level_sets = Nodes(A)
        /\ \A i \in Nodes(A) :
            /\ Len(level_sets[i]) >= MaxFinite(A, K, i) + 2
            /\ Shell(level_sets, i, 0) = {i}
            /\ \A d \in 1..MaxFinite(A, K, i) :
                 Shell(level_sets, i, d) =
                    {j \in Nodes(A) : InRange(A, K, i, j) /\ HopDistance(A, i, j) = d}
            /\ Overflow(level_sets, i) = {j \in Nodes(A) : ~InRange(A, K, i, j)}
            /\ (/\ K = None
                /\ {Cardinality(Component(A, v)) : v \in Nodes(A)} = {2, 3}
                /\ A.shape = 5)
               => Overflow(level_sets, i) = Nodes(A) \ Component(A, i)

\* level_sets has returned for two components of sizes 2 and 3 with K absent
C1_Witness ==
    /\ pc = "returned"
    /\ K = None
    /\ A \in TwoComponentGraphs
    /\ \A i \in Nodes(A) : Overflow(level_sets, i) /= {}

\* C6: for every node i the shells of i are pairwise disjoint, no node is
\* listed twice, their union is the node set and their sizes sum to n.
C6_ShellsPartitionNodes ==
    pc = "returned" =>
        \A i \in Nodes(A) :
            /\ SumSeq([x \in 1..Len(level_sets[i]) |-> Len(level_sets[i][x])]) = A.shape
            /\ UNION {Range(level_sets[i][x]) : x \in 1..Len(level_sets[i])} = Nodes(A)
            /\ \A x, y \in 1..Len(level_sets[i]) :
                 x /= y => Range(level_sets[i][x]) \cap Range(level_sets[i][y]) = {}
            /\ \A x \in 1..Len(level_sets[i]) :
                 Cardinality(Range(level_sets[i][x])) = Len(level_sets[i][x])

\* level_sets has returned for a graph in which some node has nodes at two
\* hop distances and nodes out of range
C6_Witness ==
    /\ pc = "returned"
    /\ \E i \in Nodes(A) :
        /\ Len(level_sets[i]) >= 4
        /\ \A x \in 1..Len(level_sets[i]) : level_sets[i][x] /= <<>>

\* the largest distance that has a shell of its own in the shells of i
LastDistance(ls, i) == Len(ls[i]) - 2

\* C7: for every hop distance d and all nodes i, j: j is in the distance-d
\* shell of i iff i is in the distance-d shell of j, and j is in the last
\* (overflow) shell of i iff i is in the last shell of j.
C7_ShellsSymmetric ==
    pc = "returned" =>
        \A i, j \in Nodes(A) :
            /\ \A d \in 0..A.shape :
                 (d <= LastDistance(level_sets, i) /\ j \in Shell(level_sets, i, d))
                 <=> (d <= LastDistance(level_sets, j) /\ i \in Shell(level_sets, j, d))
            /\ j \in Overflow(level_sets, i) <=> i \in Overflow(level_sets, j)

\* level_sets has returned for two nodes that are out of range of each other
\* and whose overflow shells sit at different positions
C7_Witness ==
    /\ pc = "returned"
    /\ \E i, j \in Nodes(A) :
        /\ j \in Overflow(level_sets, i)
        /\ Len(level_sets[i]) /= Len(level_sets[j])
        /\ \E v \in Nodes(A) : v /= i /\ v \in Shell(level_sets, i, 1)

\* every other node is reachable from i and, when K is given, within K hops
AllInRange(G, k, i) == \A j \in Nodes(G) : InRange(G, k, i, j)

\* C8: when every other node is in range of i, the shells of i are exactly
\* 1 + (largest hop distance from i) many and none is empty, so a node whose
\* other nodes are all first-degree neighbours has 2 shells, gets no sampler
\* and is not eligible.
C8_NoOverflowWhenAllInRange ==
    pc = "returned" =>
        \A i \in Nodes(A) :
            AllInRange(A, K, i) =>
                /\ Len(level_sets[i]) = 1 + MaxFinite(A, K, i)
                /\ \A x \in 1..Len(level_sets[i]) : level_sets[i][x] /= <<>>
                /\ MaxFinite(A, K, i) = 1 =>
                    /\ Len(level_sets[i]) = 2
                    /\ ~NeedsSampler(level_sets[i])
                    /\ i \notin Range(eligible_nodes(A, LevelCounts(level_sets)))

----------------------------------------------------------------------------
(* The complete multipartite graph, stated on the input partitions *)

Ids(parts) == Range(Flatten(parts))

\* the position of the partition that holds node id v
PartitionIndex(parts, v) == CHOOSE x \in 1..Len(parts) : v \in Range(parts[x])

\* the number of nodes outside the partition of v
CrossDegree(parts, v) == Len(Flatten(parts)) - Len(parts[PartitionIndex(parts, v)])

\* the number of nodes in partitions after the partition of v
HigherCount(parts, v) ==
    SumSeq([x \in 1..Len(parts) |->
                IF x > PartitionIndex(parts, v) THEN Len(parts[x]) ELSE 0])

\* twice the number of edges
DegreeSum(parts) ==
    SumSeq([x \in 1..Len(parts) |-> Len(parts[x]) * (Len(Flatten(parts)) - Len(parts[x]))])

CrossPairs(parts) ==
    {e \in SUBSET Ids(parts) :
        /\ Cardinality(e) = 2
        /\ \E a, b \in e : PartitionIndex(parts, a) /= PartitionIndex(parts, b)}

----------------------------------------------------------------------------
(* The exact distribution of one sampled edge: np.random.choice draws the     *)
(* origin j with probability p[j], np.random.randint draws the rank uniformly *)
(* from 0..out_degrees[j]-1.  Probabilities are numerators over Denominator.  *)

RECURSIVE ProdSeq(_)
ProdSeq(q) == IF q = <<>> THEN 1 ELSE Head(q) * ProdSeq(Tail(q))

Denominator(g) ==
    g.p[0][2] * ProdSeq([x \in 1..g.total |-> g.out_degrees[x - 1]])

\* the probability of one (origin, rank) draw with origin j
DrawWeight(g, j) ==
    g.p[j][1] * ProdSeq([x \in 1..g.total |-> IF x - 1 = j THEN 1 ELSE g.out_degrees[x - 1]])

\* the (origin, rank) draws that are possible
Outcomes(g) ==
    {o \in (0..(g.total - 1)) \X (0..(g.total - 1)) :
        g.p[o[1]][1] > 0 /\ o[2] < g.out_degrees[o[1]]}

\* the probability that the draw is one of event, a set of (origin, rank) draws
Probability(g, event) ==
    SumSeq([x \in 1..g.total |->
        DrawWeight(g, x - 1) * Cardinality({o \in event : o[1] = x - 1})])

----------------------------------------------------------------------------
(* Properties of CompleteKPartiteGraph, under SpecKPartite *)

\* C2: every pair (closer, farther) that sample_edges returns has the closer
\* node in a strictly lower-indexed input partition than the farther node.
C2_CloserInLowerPartition ==
    pc = "called" =>
        /\ Len(result.j) = result.size
        /\ Len(result.k) = result.size
        /\ \A t \in 1..result.size :
            /\ result.j[t] \in Ids(partitions)
            /\ result.k[t] \in Ids(partitions)
            /\ PartitionIndex(partitions, result.j[t])
                 < PartitionIndex(partitions, result.k[t])

\* sample_edges has returned a batch in which one drawn pair was swapped and
\* another was not
C2_Witness ==
    /\ pc = "called"
    /\ result.size >= 2
    /\ \E t \in 1..result.size : result.j[t] /= graph[1].nodes[result.origin[t]]
    /\ \E t \in 1..result.size : result.j[t] = graph[1].nodes[result.origin[t]]

\* the partition of the node at dense index idx
IndexPartition(parts, idx) == PartitionIndex(parts, Flatten(parts)[idx + 1])

\* C3: for every origin index j the map from a rank in 0..out_degree[j]-1 to
\* the target index is a bijection onto the indices outside the partition of
\* j; the origin is drawn with probability out_degree[j]/sum(out_degrees); every
\* unordered cross-partition pair is produced with probability
\* 2/sum(out_degrees), so every cross-partition pair can be produced.
C3_UniformOverEdges ==
    pc = "ready" =>
        LET g == graph[1]
            Indices == 0..(g.total - 1)
        IN /\ \A j \in Indices :
                LET targets == {SkipOwn(g, j, r) : r \in 0..(g.out_degrees[j] - 1)}
                IN /\ targets = {idx \in Indices : IndexPartition(partitions, idx)
                                                    /= IndexPartition(partitions, j)}
                   /\ Cardinality(targets) = g.out_degrees[j]
                   /\ g.out_degrees[j] = CrossDegree(partitions, g.nodes[j])
                   /\ g.p[j][1] * DegreeSum(partitions)
                        = CrossDegree(partitions, g.nodes[j]) * g.p[j][2]
           /\ \A e \in CrossPairs(partitions) :
                LET produces == {o \in Outcomes(g) :
                                    {SampleOne(g, o[1], o[2])[1],
                                     SampleOne(g, o[1], o[2])[2]} = e}
                IN Probability(g, produces) * DegreeSum(partitions)
                     = 2 * Denominator(g)

\* a sampler over three partitions of unequal sizes has been built; for an
\* origin in the middle partition some ranks are kept and some are shifted
C3_Witness ==
    /\ pc = "ready"
    /\ Len(partitions) = 3
    /\ Len(partitions[1]) /= Len(partitions[2])
    /\ \E j \in 0..(graph[1].total - 1) :
        /\ IndexPartition(partitions, j) = 2
        /\ \E r \in 0..(graph[1].out_degrees[j] - 1) : SkipOwn(graph[1], j, r) = r
        /\ \E r \in 0..(graph[1].out_degrees[j] - 1) : SkipOwn(graph[1], j, r) /= r

\* the probability that node id v is returned as the first (closer) endpoint
CloserProbability(g, v) ==
    Probability(g, {o \in Outcomes(g) : SampleOne(g, o[1], o[2])[1] = v})

\* the probability that node id v is returned as either endpoint
EndpointProbability(g, v) ==
    Probability(g, {o \in Outcomes(g) : v \in {SampleOne(g, o[1], o[2])[1],
                                                  SampleOne(g, o[1], o[2])[2]}})

\* C10 as stated: the probability that a node is returned as the closer
\* endpoint is proportional to its cross-partition degree.
C10_CloserProportionalToDegree ==
    pc = "ready" =>
        \A a, b \in Ids(partitions) :
            CloserProbability(graph[1], a) * CrossDegree(partitions, b)
              = CloserProbability(graph[1], b) * CrossDegree(partitions, a)

\* C10 as amended: the probability that a node is returned as the closer
\* endpoint is 2 * (number of nodes in higher-indexed partitions) /
\* sum(out_degrees); what is proportional to the cross-partition degree is the
\* probability that the node is an endpoint of the pair, closer or farther.
C10_CloserProportionalToHigher ==
    pc = "ready" =>
        \A a \in Ids(partitions) :
            /\ CloserProbability(graph[1], a) * DegreeSum(partitions)
                 = 2 * HigherCount(partitions, a) * Denominator(graph[1])
            /\ EndpointProbability(graph[1], a) * DegreeSum(partitions)
                 = 2 * CrossDegree(partitions, a) * Denominator(graph[1])

\* a sampler over three partitions has been built: a node of the last
\* partition is never the closer endpoint although its degree is not 0, and
\* two nodes of equal degree are the closer endpoint with different odds
C10_Witness ==
    /\ pc = "ready"
    /\ Len(partitions) = 3
    /\ \E a \in Ids(partitions) :
        /\ CrossDegree(partitions, a) > 0
        /\ CloserProbability(graph[1], a) = 0
    /\ \E a, b \in Ids(partitions) :
        /\ CrossDegree(partitions, a) = CrossDegree(partitions, b)
        /\ CloserProbability(graph[1], a) > CloserProbability(graph[1], b)
        /\ CloserProbability(graph[1], b) > 0

----------------------------------------------------------------------------
(* Properties of AttributedGraph, under Spec *)

\* the sizes N_d of the shells d >= 1 of node i
OuterSizes(ls, i) == [x \in 1..(Len(ls[i]) - 1) |-> Len(ls[i][x + 1])]

\* the pairs (closer, farther) with closer in a strictly lower non-self shell
\* of i than farther
RankedPairs(ls, i) ==
    {pr \in Nodes(A) \X Nodes(A) :
        \E x, y \in 2..Len(ls[i]) :
            /\ x < y
            /\ pr[1] \in Range(ls[i][x])
            /\ pr[2] \in Range(ls[i][y])}

\* C4: loss_weights[i] = 0.5 * ((sum of N_d)^2 - sum of N_d^2) over the shells
\* d >= 1 of i, which is the number of (closer, farther) pairs with closer in a
\* strictly lower non-self shell than farther; shell sizes [1, 3, 4] weigh 12.
C4_LossWeightCountsPairs ==
    /\ LossWeight(<<1, 3, 4>>) = 12
    /\ pc \in {"ready", "called"} =>
        \A i \in Nodes(A) :
            LET sizes == OuterSizes(level_sets, i)
            IN /\ 2 * loss_weights[i]
                    = SumSeq(sizes) * SumSeq(sizes)
                        - SumSeq([x \in 1..Len(sizes) |-> sizes[x] * sizes[x]])
               /\ loss_weights[i] = Cardinality(RankedPairs(level_sets, i))

\* an AttributedGraph has been built in which a node with three non-self
\* shells has a loss weight above 1
C4_Witness ==
    /\ pc = "ready"
    /\ \E i \in Nodes(A) :
        /\ Len(level_sets[i]) >= 4
        /\ loss_weights[i] >= 5

IsAscending(q) == \A x, y \in 1..Len(q) : x < y => q[x] < q[y]

\* C5: on a constructed AttributedGraph sample_two_neighbors(node, size) fails
\* iff the node has fewer than 3 shells, and a failing call leaves level sets,
\* level counts, loss weights and samplers unchanged; eligible_nodes() returns in
\* increasing order exactly the nodes with >= 3 shells, each of which has a
\* sampler; sample_two_neighbors does not fail for a node of eligible_nodes().
C5_FailsIffTooShallow ==
    [][/\ result'.op = "sample_two_neighbors" =>
            /\ result'.error /= "" <=> Len(level_sets[result'.node]) < 3
            /\ result'.error /= "" =>
                 UNCHANGED <<level_sets, level_counts, loss_weights, neighborhoods>>
            /\ result'.node \in Range(eligible_nodes(A, level_counts)) =>
                 /\ result'.error = ""
                 /\ Len(result'.j) = result'.size
                 /\ Len(result'.k) = result'.size
       /\ result'.op = "eligible_nodes" =>
            /\ IsAscending(result'.eligible)
            /\ Range(result'.eligible) = {i \in Nodes(A) : Len(level_sets[i]) >= 3}
            /\ \A i \in Range(result'.eligible) : neighborhoods[i] /= Absent
      ]_vars

\* sample_two_neighbors has failed on a graph that also has an eligible node
C5_Witness ==
    /\ pc = "called"
    /\ result.op = "sample_two_neighbors"
    /\ result.error = "Exception"
    /\ eligible_nodes(A, level_counts) /= <<>>

\* C9: on the path 0-1-2-3-4 with K absent the AttributedGraph is built, the
\* shells of node 2 are [{2}, {1, 3}, {0, 4}], node 2 is eligible, and every
\* pair sample_two_neighbors(2, size) returns has its first element in {1, 3}
\* and its second in {0, 4}.
C9_PathGraphEndToEnd ==
    (A = PathGraph /\ K = None /\ pc /= "init") =>
        /\ pc /= "failed"
        /\ Len(level_sets[2]) = 3
        /\ Shell(level_sets, 2, 0) = {2}
        /\ Shell(level_sets, 2, 1) = {1, 3}
        /\ Shell(level_sets, 2, 2) = {0, 4}
        /\ 2 \in Range(eligible_nodes(A, level_counts))
        /\ (result.op = "sample_two_neighbors" /\ result.node = 2) =>
            /\ result.error = ""
            /\ \A t \in 1..result.size :
                 result.j[t] \in {1, 3} /\ result.k[t] \in {0, 4}

====
